---- MODULE Spec2Model ----
(***************************************************************************)
(* A model of src/src/index.js: the class ApiTalkChatGPT, its constructor  *)
(* and its asynchronous getResponse pipeline (selection model call,        *)
(* primary fetch, optional chain fetch, formatting model call).            *)
(*                                                                         *)
(* JavaScript values are tagged records; the language-model client and the *)
(* HTTP client are the environment: each await is one action whose outcome *)
(* (resolution, rejection, malformed reply) is chosen nondeterministically.*)
(***************************************************************************)
EXTENDS Integers, Sequences, FiniteSets, TLC

VARIABLES
  ctor,        \* the last `new ApiTalkChatGPT(config)`: its config and the error thrown
  this,        \* the constructed instance (openai, model, maxTokens), Null before
  endpoints,   \* the caller's endpoint catalog (objects shared by reference with the calls)
  pc,          \* the position of the running getResponse call
  args,        \* the arguments of the running call
  model,       \* getResponse local `model`       (line 140)
  maxTokens,   \* getResponse local `maxTokens`   (line 141)
  selectedEndpointName, \* local, line 165
  selectedEndpoint,     \* local, line 166: index in endpoints, 0 for undefined
  response,    \* the Response object whose .json() is awaited
  finalData,   \* local, lines 196 and 216
  outbound,    \* the outbound calls issued by the running call, in issue order
  settled,     \* the outcomes of the outbound calls that have completed, in order
  result       \* the promise returned by the running call

vars == <<ctor, this, endpoints, pc, args, model, maxTokens, selectedEndpointName,
          selectedEndpoint, response, finalData, outbound, settled, result>>

---------------------------------------------------------------------------
(* Bounds of the model *)

\* longest selection reply (in characters) the model client returns
MaxLen == 2

---------------------------------------------------------------------------
(* JavaScript values *)

Undefined == [t |-> "undefined"]
Null == [t |-> "null"]
NaN == [t |-> "nan"]
Num(n) == [t |-> "number", n |-> n]
\* a string whose characters the program never inspects
Str(s) == [t |-> "string", s |-> s]
\* a string whose characters the program inspects (trim, toLowerCase, toUpperCase)
Txt(chars) == [t |-> "string", chars |-> chars]
Obj(id) == [t |-> "object", id |-> id]
Arr(items) == [t |-> "array", items |-> items]

\* typeof v
TypeOf(v) ==
  CASE v.t = "nan" -> "number"
    [] v.t \in {"null", "array"} -> "object"
    [] OTHER -> v.t

\* ToBoolean(v): what `!v`, `v || w` and `v && w` test
Truthy(v) ==
  CASE v.t \in {"undefined", "null", "nan"} -> FALSE
    [] v.t = "number" -> v.n # 0
    [] v.t = "string" /\ "chars" \in DOMAIN v -> v.chars # <<>>
    [] v.t = "string" /\ "s" \in DOMAIN v -> v.s # ""
    [] OTHER -> TRUE

\* a || b
Or(a, b) == IF Truthy(a) THEN a ELSE b

\* a default parameter or destructuring default: applies to undefined only
Default(v, d) == IF v = Undefined THEN d ELSE v

\* Array.isArray(v)
IsArray(v) == v.t = "array"

\* JSON.stringify(v): a string holding the JSON text of v
JSONstringify(v) == [t |-> "string", json |-> v]

\* JSON.parse(text) / the body parser behind response.json()
IsJSON(text) == "json" \in DOMAIN text
JSONparse(text) == text.json

---------------------------------------------------------------------------
(* Strings as character sequences *)

Lowers == <<"a", "b", "e", "g", "o", "p", "s", "t">>
Uppers == <<"A", "B", "E", "G", "O", "P", "S", "T">>
Whitespace == {" "}

LowerChar(c) == IF \E i \in DOMAIN Uppers : Uppers[i] = c
                THEN Lowers[CHOOSE i \in DOMAIN Uppers : Uppers[i] = c] ELSE c
UpperChar(c) == IF \E i \in DOMAIN Lowers : Lowers[i] = c
                THEN Uppers[CHOOSE i \in DOMAIN Lowers : Lowers[i] = c] ELSE c

\* String.prototype.toLowerCase / toUpperCase
toLowerCase(s) == [i \in DOMAIN s |-> LowerChar(s[i])]
toUpperCase(s) == [i \in DOMAIN s |-> UpperChar(s[i])]

RECURSIVE trimStart(_)
trimStart(s) == IF s # <<>> /\ Head(s) \in Whitespace THEN trimStart(Tail(s)) ELSE s
RECURSIVE trimEnd(_)
trimEnd(s) == IF s # <<>> /\ s[Len(s)] \in Whitespace
              THEN trimEnd(SubSeq(s, 1, Len(s) - 1)) ELSE s
\* String.prototype.trim
trim(s) == trimEnd(trimStart(s))

---------------------------------------------------------------------------
(* The caller's data: endpoint catalogs, constructor configs, call arguments *)

GET == <<"G", "E", "T">>
ContentType == "Content-Type"
ApplicationJson == "application/json"

\* a `headers` object with the given name -> value mapping
Headers(map) == [t |-> "object", map |-> map]
NoHeaders == [h \in {} |-> ""]
Authorization == "Authorization" :> "Bearer token"
\* a `query` object, with the text URLSearchParams(query).toString() gives
Query(qs) == [t |-> "object", qs |-> qs]

\* a chain sub-descriptor
Chain(url, query, method, headers, body) ==
  [t |-> "object", url |-> url, query |-> query, method |-> method,
   headers |-> headers, body |-> body]
\* an endpoint descriptor
Descriptor(name, url, query, method, headers, body, chain) ==
  [name |-> name, url |-> url, query |-> query, method |-> method,
   headers |-> headers, body |-> body, chain |-> chain]

Users ==
  Descriptor(<<"a">>, <<"http://h/users">>, Undefined, Undefined, Undefined,
             Obj("filter"), Undefined)
Orders ==
  Descriptor(<<"A", "b">>, <<"http://h/orders", "?", "page=1">>, Query("status=open"),
             Txt(<<"P", "O", "S", "T">>), Headers(Authorization), Obj("filter"),
             Chain(<<"http://h/prices">>, Query("currency=USD"), Txt(<<"g", "e", "t">>),
                   Headers(Authorization), Obj("filter")))
Products ==
  Descriptor(<<"A", "b">>, <<"http://h/products">>, Undefined,
             Txt(<<"p", "o", "s", "t">>), Undefined, Num(0),
             Chain(<<"http://h/prices">>, Undefined, Txt(<<"P", "o", "S", "T">>),
                   Headers(ContentType :> "text/plain"), Obj("filter")))
Stock ==
  Descriptor(<<"a", "b">>, <<"http://h/stock">>, Query("sku=1"), Txt(GET),
             Headers(NoHeaders), Undefined, Undefined)
Padded ==
  Descriptor(<<"a", " ">>, <<"http://h/padded">>, Undefined, Undefined, Undefined,
             Undefined, Undefined)
Invoices ==
  Descriptor(<<"b">>, <<"http://h/invoices">>, Undefined, Txt(<<"P", "O", "S", "T">>),
             Undefined, Obj("filter"),
             Chain(<<"http://h/taxes">>, Undefined, Undefined, Undefined, Undefined))

Catalogs == { <<Users, Orders>>, <<Products, Stock>>, <<Padded, Invoices>> }

\* line 104: the constructor's defaults
DefaultModel == Str("gpt-4")
DefaultMaxTokens == 200

\* constructor configs ({ openAIApiKey, model, maxTokens }; Undefined = key absent)
Configs ==
  [openAIApiKey : {Undefined, Str("sk-key")},
   model : {Undefined, Str(""), Str("gpt-4")},
   maxTokens : {Undefined, Num(0), Num(-1), NaN, Str("150"), Num(DefaultMaxTokens)}]

\* getResponse arguments (Undefined = argument not passed)
Queries == {Str(""), Str("which orders are pending?")}
TheCatalog == [t |-> "array", ref |-> "endpoints"]
EndpointsArgs == {Undefined, Arr(<<>>), TheCatalog}
MessagesArgs == {Undefined, Null, Arr(<<[role |-> "user", content |-> "hello"]>>)}
Languages == {Undefined, Str("es")}
Options(m, mt) == [t |-> "object", model |-> m, maxTokens |-> mt]
OptionsArgs ==
  {Undefined, Null, Options(Undefined, Undefined),
   Options(Str("gpt-3.5-turbo"), Undefined), Options(Undefined, Num(64)),
   Options(Str("gpt-3.5-turbo"), Num(64)), Options(Str(""), Num(0))}

---------------------------------------------------------------------------
(* The environment: what the model client and the HTTP client answer *)

Chars == {"a", "A", "b", " "}
RECURSIVE SeqsUpTo(_)
SeqsUpTo(n) ==
  IF n = 0 THEN {<<>>}
  ELSE LET shorter == SeqsUpTo(n - 1)
       IN shorter \cup {Append(s, c) : s \in {x \in shorter : Len(x) = n - 1}, c \in Chars}
\* the texts the selection model call may answer
SelectionReplies == {Txt(s) : s \in SeqsUpTo(MaxLen)}
FormatReplies == {Str("Order 102 is pending.")}

Error(name, message) == [t |-> "object", name |-> name, message |-> message]
Rejected(error) == [kind |-> "rejected", value |-> error]
Resolved(value) == [kind |-> "resolved", value |-> value]
Pending == [kind |-> "pending", value |-> Undefined]

\* the data of a createChatCompletion response
Completion(content) == [choices |-> <<[message |-> [content |-> content]]>>]
Malformed == [choices |-> <<>>]
ModelOutcomes(replies) ==
  {Rejected(Error("Error", "Request failed with status code 429"))}
  \cup {Resolved(Malformed)} \cup {Resolved(Completion(c)) : c \in replies}

\* the JSON values a 200 response may carry: a list, an object, a scalar, null
JsonValues == {Arr(<<Obj("row")>>), Obj("row"), Num(7), Null}
Response(status, body) == [status |-> status, body |-> body]
\* the responses an HTTP target may send: 200 with JSON, 404 with a JSON error object,
\* 502 with a body that is not JSON
Responses ==
  {Response(200, JSONstringify(v)) : v \in JsonValues}
  \cup {Response(404, JSONstringify(Obj("not found"))),
        Response(502, Str("<html>Bad Gateway</html>"))}
\* fetch rejects on a network failure and resolves with any response, whatever its status
FetchOutcomes ==
  {Rejected(Error("FetchError", "request failed, reason: ECONNREFUSED"))}
  \cup {Resolved(r) : r \in Responses}

---------------------------------------------------------------------------
(* class ApiTalkChatGPT: the constructor *)

\* line 105: if (!openAIApiKey)
MissingApiKey(openAIApiKey) == ~Truthy(openAIApiKey)
\* line 108: if (!model)
MissingModel(m) == ~Truthy(m)
\* line 111: if (!maxTokens || typeof maxTokens !== "number")
InvalidMaxTokens(mt) == ~Truthy(mt) \/ TypeOf(mt) # "number"

\* the error the constructor throws for config, Undefined when it throws none
ConstructorError(config) ==
  LET m == Default(config.model, DefaultModel)
      mt == Default(config.maxTokens, Num(DefaultMaxTokens))
  IN IF MissingApiKey(config.openAIApiKey)
     THEN Error("Error", "You must provide an OpenAI API Key.")
     ELSE IF MissingModel(m)
     THEN Error("Error", "You must specify an OpenAI model.")
     ELSE IF InvalidMaxTokens(mt)
     THEN Error("Error", "You must specify maxTokens as a number.")
     ELSE Undefined

\* lines 115-117: the fields of the new instance
NewInstance(config) ==
  [t |-> "object",
   openai |-> [apiKey |-> config.openAIApiKey],
   model |-> Default(config.model, DefaultModel),
   maxTokens |-> Default(config.maxTokens, Num(DefaultMaxTokens))]

NoCall ==
  /\ pc = "idle"
  /\ UNCHANGED <<pc, args, model, maxTokens, selectedEndpointName, selectedEndpoint,
                 response, finalData, outbound, settled, result>>

\* new ApiTalkChatGPT(config)
Constructor(config) ==
  /\ this = Null
  /\ NoCall
  /\ ctor' = [called |-> TRUE, config |-> config, error |-> ConstructorError(config)]
  /\ this' = IF ConstructorError(config) = Undefined THEN NewInstance(config) ELSE Null
  /\ UNCHANGED endpoints

---------------------------------------------------------------------------
(* ApiTalkChatGPT.getResponse: helpers *)

SelectionMaxTokens == 50
SelectionSystem ==
  Str("You are an assistant that selects the best endpoint based on queries and response examples.")
FormatSystem ==
  Str("You are an assistant that formats responses based on database queries into natural language.")
ErrorSentinel ==
  Str("An error occurred while processing your request. Please try again later.")

Range(f) == {f[i] : i \in DOMAIN f}

\* endpoints.length of the argument
Length(eps) == IF "ref" \in DOMAIN eps THEN Len(endpoints) ELSE Len(eps.items)

\* line 135: if (!query || !Array.isArray(endpoints) || endpoints.length === 0)
InvalidArguments(query, eps) ==
  ~Truthy(query) \/ ~IsArray(eps) \/ Length(eps) = 0

\* lines 241-244: the catch block logs error.message and returns the fixed text
Catch(error) == Resolved(ErrorSentinel)

\* lines 145-153: the selection prompt lists every descriptor and quotes the query
SelectionPrompt(query) ==
  [t |-> "string", lists |-> [i \in DOMAIN endpoints |-> endpoints[i].name],
   query |-> query]

\* lines 220-228: the formatting prompt embeds JSON.stringify(finalData) and the language
FinalPrompt(data, language) ==
  [t |-> "string", retrieved |-> JSONstringify(data), language |-> language]

\* the argument object of createChatCompletion (lines 155-163, 230-238)
ChatRequest(m, system, messages, prompt, max_tokens) ==
  [model |-> m,
   messages |-> <<[role |-> "system", content |-> system]>> \o messages.items
                \o <<[role |-> "user", content |-> prompt]>>,
   max_tokens |-> max_tokens]

\* faulty variant of Find: falls back to the first descriptor when none matches
FindOrFirst(eps, name) ==
  LET matches == {i \in DOMAIN eps : toLowerCase(eps[i].name) = toLowerCase(name)}
  IN IF matches = {} THEN 1 ELSE CHOOSE i \in matches : \A j \in matches : i <= j

\* faulty variant of Find: compares the names case-sensitively
FindCaseSensitive(eps, name) ==
  LET matches == {i \in DOMAIN eps : eps[i].name = name}
  IN IF matches = {} THEN 0 ELSE CHOOSE i \in matches : \A j \in matches : i <= j

\* line 166: endpoints.find(e => e.name.toLowerCase() === selectedEndpointName.toLowerCase()),
\* as the index of the descriptor found, 0 for undefined
Find(eps, name) ==
  LET matches == {i \in DOMAIN eps : toLowerCase(eps[i].name) = toLowerCase(name)}
  IN IF matches = {} THEN 0 ELSE CHOOSE i \in matches : \A j \in matches : i <= j

\* lines 175-179 and 201-205: the URL with the query string appended
FetchUrl(e) ==
  IF Truthy(e.query) /\ TypeOf(e.query) = "object"
  THEN e.url \o <<IF "?" \in Range(e.url) THEN "&" ELSE "?", e.query.qs>>
  ELSE e.url

\* lines 186 and 210: e.body && options.method.toUpperCase() !== 'GET'
SendsBody(e) ==
  Truthy(e.body) /\ toUpperCase(Or(e.method, Txt(GET)).chars) # GET

\* lines 181-189 and 206-213: the options object given to fetch
FetchOptions(e) ==
  LET method == Or(e.method, Txt(GET))
      headers == IF Truthy(e.headers) THEN e.headers.map ELSE NoHeaders
  IN IF SendsBody(e)
     THEN [method |-> method,
           headers |-> (ContentType :> ApplicationJson) @@ headers,
           body |-> JSONstringify(e.body)]
     ELSE [method |-> method, headers |-> headers, body |-> Undefined]

\* lines 183/187 and 208/211: options.headers IS the descriptor's headers object when it
\* has one, so the Content-Type assignment writes into the catalog
HeadersAfterFetch(e) ==
  IF Truthy(e.headers) /\ SendsBody(e)
  THEN Headers((ContentType :> ApplicationJson) @@ e.headers.map)
  ELSE e.headers

\* faulty variant of AsList: the body is wrapped even when it is a list
AlwaysWrapped(data) == Arr(<<data>>)

\* lines 196 and 216: Array.isArray(data) ? data : [data]
AsList(data) == IF IsArray(data) THEN data ELSE Arr(<<data>>)

\* line 140: options.model || this.model
EffectiveModel(options, instance) == Or(options.model, instance.model)
\* faulty variant of EffectiveMaxTokens: the per-call override is ignored
InstanceMaxTokens(options, instance) == instance.maxTokens

\* line 141: options.maxTokens || this.maxTokens
EffectiveMaxTokens(options, instance) == Or(options.maxTokens, instance.maxTokens)

\* lines 155-163: the selection model call
SelectionCall(a, m) ==
  [kind |-> "model", call |-> "selection",
   request |-> ChatRequest(m, SelectionSystem, a.messages, SelectionPrompt(a.query),
                           Num(SelectionMaxTokens))]

\* lines 230-238: the formatting model call, for the payload data
FormatCall(data) ==
  [kind |-> "model", call |-> "format",
   request |-> ChatRequest(model, FormatSystem, args.messages,
                           FinalPrompt(data, args.language), maxTokens)]

\* line 192: fetch(url, requestOptions) for the selected descriptor
PrimaryCall(e) ==
  [kind |-> "http", call |-> "primary", url |-> FetchUrl(e), options |-> FetchOptions(e)]
\* line 214: fetch(chainUrl, chainOptions) for its chain sub-descriptor
ChainCall(c) ==
  [kind |-> "http", call |-> "chain", url |-> FetchUrl(c), options |-> FetchOptions(c)]

\* the outcome of a completed outbound call (status 0: no HTTP response)
Outcome(call, status, o) == [call |-> call, status |-> status, outcome |-> o]

\* the running call ends: its promise settles as r
Finish(r) == pc' = "done" /\ result' = r

---------------------------------------------------------------------------
(* ApiTalkChatGPT.getResponse: one action per step between awaits *)

\* lines 134-163: the call up to the first await
GetResponse(query, eps, messages, language, options) ==
  LET a == [query |-> query, endpoints |-> eps,
            messages |-> Default(messages, Arr(<<>>)),
            language |-> Default(language, Str("en")),
            options |-> Default(options, Options(Undefined, Undefined))]
  IN
  /\ this # Null
  /\ pc = "idle"
  /\ args' = a
  /\ UNCHANGED <<ctor, this, endpoints, selectedEndpointName, selectedEndpoint,
                 response, finalData, settled>>
  /\ IF InvalidArguments(query, eps)
     THEN /\ Finish(Rejected(Error("Error",
                      "You must provide a query and a valid list of endpoints.")))
          /\ UNCHANGED <<model, maxTokens, outbound>>
     ELSE IF a.options.t \in {"null", "undefined"}
     THEN \* line 140 reads options.model outside the try block
          /\ Finish(Rejected(Error("TypeError", "Cannot read properties of null")))
          /\ UNCHANGED <<model, maxTokens, outbound>>
     ELSE /\ model' = EffectiveModel(a.options, this)
          /\ maxTokens' = EffectiveMaxTokens(a.options, this)
          /\ IF ~IsArray(a.messages)
             THEN \* line 159: ...messages of a non-iterable throws inside the try block
                  /\ Finish(Catch(Error("TypeError", "messages is not iterable")))
                  /\ UNCHANGED outbound
             ELSE /\ outbound' = <<SelectionCall(a, EffectiveModel(a.options, this))>>
                  /\ pc' = "selection"
                  /\ result' = Pending

\* lines 165-192: the selection model call settles; the descriptor is looked up and
\* the primary fetch is issued
SelectionSettles(o) ==
  /\ pc = "selection"
  /\ settled' = Append(settled, Outcome("selection", 0, o))
  /\ UNCHANGED <<ctor, this, args, model, maxTokens, response, finalData>>
  /\ IF o.kind = "rejected"
     THEN /\ Finish(Catch(o.value))
          /\ UNCHANGED <<endpoints, selectedEndpointName, selectedEndpoint, outbound>>
     ELSE IF o.value.choices = <<>>
     THEN /\ Finish(Catch(Error("TypeError", "Cannot read properties of undefined")))
          /\ UNCHANGED <<endpoints, selectedEndpointName, selectedEndpoint, outbound>>
     ELSE LET name == trim(o.value.choices[1].message.content.chars)
              found == Find(endpoints, name)
          IN /\ selectedEndpointName' = Txt(name)
             /\ selectedEndpoint' = found
             /\ IF found = 0
                THEN /\ Finish(Catch(Error("Error",
                                 "No suitable endpoint found for the query.")))
                     /\ UNCHANGED <<endpoints, outbound>>
                ELSE /\ outbound' = Append(outbound, PrimaryCall(endpoints[found]))
                     /\ endpoints' = [endpoints EXCEPT
                                        ![found].headers = HeadersAfterFetch(endpoints[found])]
                     /\ pc' = "primaryFetch"
                     /\ UNCHANGED result

\* faulty variant of HasChain: the chain is looked up under a name no descriptor has
HasChained(e) == "chained" \in DOMAIN e /\ Truthy(e.chained)

\* line 199: if (selectedEndpoint.chain)
HasChain(e) == Truthy(e.chain)

\* the payload after the primary fetch (line 196)
ProductData(data) == [productData |-> AsList(data)]
\* faulty variant of WithChainData: the chain result replaces the primary result
ChainDataAsProductData(data, chainData) == [productData |-> AsList(chainData)]

\* the payload after the chain fetch (line 216)
WithChainData(data, chainData) ==
  [productData |-> data.productData, chainData |-> AsList(chainData)]

\* line 192: await fetch(url, requestOptions) settles
PrimaryFetchSettles(o) ==
  /\ pc = "primaryFetch"
  /\ UNCHANGED <<ctor, this, endpoints, args, model, maxTokens, selectedEndpointName,
                 selectedEndpoint, finalData, outbound>>
  /\ IF o.kind = "rejected"
     THEN /\ Finish(Catch(o.value))
          /\ settled' = Append(settled, Outcome("primary", 0, o))
          /\ UNCHANGED response
     ELSE /\ response' = o.value
          /\ pc' = "primaryJson"
          /\ UNCHANGED <<settled, result>>

\* lines 193-217 / 220-238: await response.json() settles; the chain fetch is issued if
\* the descriptor has a chain, the formatting model call otherwise
PrimaryJsonSettles ==
  /\ pc = "primaryJson"
  /\ UNCHANGED <<ctor, this, args, model, maxTokens, selectedEndpointName,
                 selectedEndpoint, response>>
  /\ IF ~IsJSON(response.body)
     THEN /\ Finish(Catch(Error("FetchError", "invalid json response body")))
          /\ settled' = Append(settled, Outcome("primary", response.status,
                           Rejected(Error("FetchError", "invalid json response body"))))
          /\ UNCHANGED <<endpoints, finalData, outbound>>
     ELSE LET data == JSONparse(response.body)
              e == endpoints[selectedEndpoint]
          IN /\ settled' = Append(settled,
                                  Outcome("primary", response.status, Resolved(data)))
             /\ finalData' = ProductData(data)
             /\ UNCHANGED result
             /\ IF HasChain(e)
                THEN /\ outbound' = Append(outbound, ChainCall(e.chain))
                     /\ endpoints' = [endpoints EXCEPT ![selectedEndpoint].chain.headers =
                                        HeadersAfterFetch(e.chain)]
                     /\ pc' = "chainFetch"
                ELSE /\ outbound' = Append(outbound, FormatCall(ProductData(data)))
                     /\ pc' = "format"
                     /\ UNCHANGED endpoints

\* line 214: await fetch(chainUrl, chainOptions) settles
ChainFetchSettles(o) ==
  /\ pc = "chainFetch"
  /\ UNCHANGED <<ctor, this, endpoints, args, model, maxTokens, selectedEndpointName,
                 selectedEndpoint, finalData, outbound>>
  /\ IF o.kind = "rejected"
     THEN /\ Finish(Catch(o.value))
          /\ settled' = Append(settled, Outcome("chain", 0, o))
          /\ UNCHANGED response
     ELSE /\ response' = o.value
          /\ pc' = "chainJson"
          /\ UNCHANGED <<settled, result>>

\* lines 215-238: await chainResponse.json() settles; the formatting model call is issued
ChainJsonSettles ==
  /\ pc = "chainJson"
  /\ UNCHANGED <<ctor, this, endpoints, args, model, maxTokens, selectedEndpointName,
                 selectedEndpoint, response>>
  /\ IF ~IsJSON(response.body)
     THEN /\ Finish(Catch(Error("FetchError", "invalid json response body")))
          /\ settled' = Append(settled, Outcome("chain", response.status,
                           Rejected(Error("FetchError", "invalid json response body"))))
          /\ UNCHANGED <<finalData, outbound>>
     ELSE LET chainData == JSONparse(response.body)
          IN /\ settled' = Append(settled,
                                  Outcome("chain", response.status, Resolved(chainData)))
             /\ finalData' = WithChainData(finalData, chainData)
             /\ outbound' = Append(outbound, FormatCall(WithChainData(finalData, chainData)))
             /\ pc' = "format"
             /\ UNCHANGED result

\* lines 230-244: the formatting model call settles and the call returns
FormatSettles(o) ==
  /\ pc = "format"
  /\ settled' = Append(settled, Outcome("format", 0, o))
  /\ UNCHANGED <<ctor, this, endpoints, args, model, maxTokens, selectedEndpointName,
                 selectedEndpoint, response, finalData, outbound>>
  /\ IF o.kind = "rejected"
     THEN Finish(Catch(o.value))
     ELSE IF o.value.choices = <<>>
     THEN Finish(Catch(Error("TypeError", "Cannot read properties of undefined")))
     ELSE Finish(Resolved(o.value.choices[1].message.content))

\* the caller has the promise's outcome; the call's locals are gone
Return ==
  /\ pc = "done"
  /\ pc' = "idle"
  /\ args' = Undefined
  /\ model' = Undefined
  /\ maxTokens' = Undefined
  /\ selectedEndpointName' = Undefined
  /\ selectedEndpoint' = 0
  /\ response' = Undefined
  /\ finalData' = Undefined
  /\ outbound' = <<>>
  /\ settled' = <<>>
  /\ result' = Pending
  /\ UNCHANGED <<ctor, this, endpoints>>

---------------------------------------------------------------------------
(* The specification *)

Init ==
  /\ ctor = [called |-> FALSE, config |-> Undefined, error |-> Undefined]
  /\ this = Null
  /\ endpoints \in Catalogs
  /\ pc = "idle"
  /\ args = Undefined
  /\ model = Undefined
  /\ maxTokens = Undefined
  /\ selectedEndpointName = Undefined
  /\ selectedEndpoint = 0
  /\ response = Undefined
  /\ finalData = Undefined
  /\ outbound = <<>>
  /\ settled = <<>>
  /\ result = Pending

Next ==
  \/ \E config \in Configs : Constructor(config)
  \/ \E query \in Queries, eps \in EndpointsArgs, messages \in MessagesArgs,
        language \in Languages, options \in OptionsArgs :
       GetResponse(query, eps, messages, language, options)
  \/ \E o \in ModelOutcomes(SelectionReplies) : SelectionSettles(o)
  \/ \E o \in FetchOutcomes : PrimaryFetchSettles(o)
  \/ PrimaryJsonSettles
  \/ \E o \in FetchOutcomes : ChainFetchSettles(o)
  \/ ChainJsonSettles
  \/ \E o \in ModelOutcomes(FormatReplies) : FormatSettles(o)
  \/ Return

Spec == Init /\ [][Next]_vars

---------------------------------------------------------------------------
(* Vocabulary of the properties *)

\* two characters that are the same letter, whatever their case
SameLetter(c, d) ==
  c = d \/ \E i \in DOMAIN Lowers : {c, d} = {Lowers[i], Uppers[i]}
\* two texts equal up to letter case
EqualIgnoringCase(a, b) ==
  Len(a) = Len(b) /\ \A i \in 1..Len(a) : SameLetter(a[i], b[i])
\* a text without its surrounding whitespace
Stripped(r) ==
  LET ink == {i \in 1..Len(r) : r[i] \notin Whitespace}
  IN IF ink = {} THEN <<>>
     ELSE SubSeq(r, CHOOSE i \in ink : \A j \in ink : i <= j,
                    CHOOSE i \in ink : \A j \in ink : i >= j)

\* the selection model call has answered with a text
HasSelectionText ==
  /\ settled # <<>>
  /\ settled[1].outcome.kind = "resolved"
  /\ settled[1].outcome.value.choices # <<>>
SelectionText == settled[1].outcome.value.choices[1].message.content.chars
\* the descriptors whose name is the trimmed selection text up to letter case
NameMatches ==
  {k \in DOMAIN endpoints : EqualIgnoringCase(endpoints[k].name, Stripped(SelectionText))}

\* the positions in outbound of the calls of one kind / from one call site
CallsOfKind(kind) == {i \in DOMAIN outbound : outbound[i].kind = kind}
CallsFrom(site) == {i \in DOMAIN outbound : outbound[i].call = site}
CallSites == [i \in DOMAIN outbound |-> outbound[i].call]
\* the completed outcomes of the HTTP calls
HttpOutcomes == {i \in DOMAIN settled : settled[i].call \in {"primary", "chain"}}
Failed == result = Resolved(ErrorSentinel)
\* the call has resolved to the text the formatting model call answered
ReturnedFormattedText ==
  /\ pc = "done"
  /\ settled # <<>>
  /\ LET last == settled[Len(settled)]
     IN /\ last.call = "format"
        /\ last.outcome.kind = "resolved"
        /\ last.outcome.value.choices # <<>>
        /\ result = Resolved(last.outcome.value.choices[1].message.content)

---------------------------------------------------------------------------
(* Properties *)

\* C1: a getResponse call with a non-empty query and a non-empty endpoints list never
\* rejects, whatever the other arguments and whatever the model client and the HTTP
\* client do: it resolves to the formatted text or to the normalized error value.
\* (Refuted: options = null makes line 140, outside the try block, throw.)
C1_NeverRejects ==
  (pc = "done" /\ ~InvalidArguments(args.query, args.endpoints))
    => (Failed \/ ReturnedFormattedText)

\* C2: if the trimmed selection text equals no descriptor name up to letter case, the
\* call resolves to the normalized failure value and issues no HTTP fetch and no
\* formatting model call.
C2_NoMatchNoFetch ==
  (HasSelectionText /\ NameMatches = {})
    => /\ pc = "done"
       /\ Failed
       /\ CallSites = <<"selection">>

\* C2 happens: the model answered a text that names no descriptor
C2_Witness ==
  /\ HasSelectionText
  /\ NameMatches = {}
  /\ Stripped(SelectionText) # <<>>
  /\ pc = "done"

\* C3: when the trimmed selection text equals a descriptor's name up to letter case, the
\* primary fetch goes to the first such descriptor in catalog order; a text that
\* differs from every name in more than case and surrounding whitespace selects none.
C3_CaseInsensitiveSelection ==
  HasSelectionText
    => IF NameMatches # {}
       THEN LET first == CHOOSE k \in NameMatches : \A j \in NameMatches : k <= j
            IN /\ selectedEndpoint = first
               /\ Len(outbound) >= 2
               /\ outbound[2].call = "primary"
               /\ outbound[2].url = FetchUrl(endpoints[first])
       ELSE /\ selectedEndpoint = 0
            /\ CallsOfKind("http") = {}

\* C3 happens: the text "ab" differs in case from the first descriptor's name, equals
\* the second descriptor's name, and the primary fetch goes to the first
C3_Witness ==
  /\ HasSelectionText
  /\ SelectionText = <<"a", "b">>
  /\ endpoints[1].name = <<"A", "b">>
  /\ endpoints[2].name = <<"a", "b">>
  /\ pc = "primaryFetch"
  /\ outbound[2].url = FetchUrl(endpoints[1])

\* the descriptor the running call selected, and whether it defines a chain
Selected == endpoints[selectedEndpoint]
ChainDefined == selectedEndpoint # 0 /\ Selected.chain # Undefined
\* the payload embedded in the prompt of the model call at position i of outbound
Payload(i) ==
  LET messages == outbound[i].request.messages
  IN JSONparse(messages[Len(messages)].content.retrieved)
\* the body the HTTP call from one call site was answered with
ResultOf(site) ==
  LET j == CHOOSE j \in DOMAIN settled : settled[j].call = site
  IN settled[j].outcome.value
\* a payload field that holds a fetch result, as it is or wrapped in a list
Holds(field, body) == field = body \/ field = Arr(<<body>>)

C5_ConstructionValidates ==
  ctor.called
    => LET c == ctor.config
           positive == c.maxTokens.t = "number" /\ c.maxTokens.n > 0
           invalid == \/ c.openAIApiKey = Undefined
                      \/ c.model = Str("")
                      \/ (c.maxTokens # Undefined /\ ~positive)
       IN /\ (ctor.error # Undefined) <=> invalid
          /\ invalid => this = Null

\* the overrides the running call was given
Overrides == args.options
CallHasOptions == pc # "idle" /\ args.options.t = "object"
ModelOf(i) == outbound[i].request.model
MaxTokensOf(i) == outbound[i].request.max_tokens

\* C6 as stated: options.model and options.maxTokens, when supplied, are used by both
\* model calls / by the formatting call, and the instance keeps its construction-time
\* fields. (Refuted: a supplied "" or 0 is not used.)
C6_SuppliedOptionsOverride ==
  CallHasOptions
    => /\ Overrides.model # Undefined
            => \A i \in CallsOfKind("model") : ModelOf(i) = Overrides.model
       /\ Overrides.maxTokens # Undefined
            => \A i \in CallsFrom("format") : MaxTokensOf(i) = Overrides.maxTokens
       /\ this = NewInstance(ctor.config)

\* C6 as amended: an override that is truthy (a non-empty model, a non-zero maxTokens)
\* is used by both model calls / by the formatting call; an override that is absent or
\* falsy ("" or 0) leaves the instance default in use; the instance keeps its
\* construction-time fields, so a later call without options uses them.
C6_TruthyOptionsOverride ==
  CallHasOptions
    => /\ \A i \in CallsOfKind("model") :
            ModelOf(i) = IF Truthy(Overrides.model) THEN Overrides.model ELSE this.model
       /\ \A i \in CallsFrom("format") :
            MaxTokensOf(i) = IF Truthy(Overrides.maxTokens) THEN Overrides.maxTokens
                             ELSE this.maxTokens
       /\ this = NewInstance(ctor.config)

\* C6 happens: both overrides were supplied, both model calls were issued with them,
\* and the instance still holds its defaults
C6_Witness ==
  /\ pc = "format"
  /\ Overrides = Options(Str("gpt-3.5-turbo"), Num(64))
  /\ this.model = DefaultModel
  /\ this.maxTokens = Num(DefaultMaxTokens)
  /\ Cardinality(CallsOfKind("model")) = 2
  /\ \A i \in CallsOfKind("model") : ModelOf(i) = Str("gpt-3.5-turbo")
  /\ \E i \in CallsFrom("format") : MaxTokensOf(i) = Num(64)

\* the descriptor (or chain sub-descriptor) the HTTP call at position i was built from
SourceOf(i) == IF outbound[i].call = "primary" THEN Selected ELSE Selected.chain
MethodIsGet(e) == e.method = Undefined \/ EqualIgnoringCase(e.method.chars, GET)
CarriesJsonBody(i) ==
  /\ outbound[i].options.body = JSONstringify(SourceOf(i).body)
  /\ ContentType \in DOMAIN outbound[i].options.headers
  /\ outbound[i].options.headers[ContentType] = ApplicationJson
CarriesNoBody(i) == outbound[i].options.body = Undefined

\* C7: a primary or chain request whose method is not GET (up to case) and whose
\* descriptor has a body carries the JSON text of the body and Content-Type:
\* application/json; with method GET or absent it carries no body.
\* (Refuted: a body of 0 is defined and not sent.)
C7_PresentBodySent ==
  \A i \in CallsOfKind("http") :
     /\ (~MethodIsGet(SourceOf(i)) /\ SourceOf(i).body # Undefined) => CarriesJsonBody(i)
     /\ MethodIsGet(SourceOf(i)) => CarriesNoBody(i)

\* What line 186 / 210 does instead: the request carries the JSON text of the body and
\* Content-Type: application/json when the method is not GET (up to case) and the body
\* is truthy; it carries no body when the method is GET or absent, and none when the
\* body is absent or falsy (null, false, 0, NaN, "").
TruthyBodySent ==
  \A i \in CallsOfKind("http") :
     /\ (~MethodIsGet(SourceOf(i)) /\ Truthy(SourceOf(i).body)) => CarriesJsonBody(i)
     /\ MethodIsGet(SourceOf(i)) => CarriesNoBody(i)
     /\ ~Truthy(SourceOf(i).body) => CarriesNoBody(i)

\* both cases in one call: the primary request went out with method POST, its body and
\* the Content-Type header, and the chain request with method "get" went out without
\* the body its sub-descriptor defines
BodySentAndWithheld ==
  /\ pc = "chainFetch"
  /\ ~MethodIsGet(SourceOf(2))
  /\ SourceOf(2).body = Obj("filter")
  /\ CarriesJsonBody(2)
  /\ SourceOf(3).method = Txt(<<"g", "e", "t">>)
  /\ SourceOf(3).body = Obj("filter")
  /\ CarriesNoBody(3)

\* C8: a primary or chain HTTP call answered with a non-2xx status makes the call
\* resolve to the normalized failure value without a formatting model call.
\* (Refuted: a 404 whose body is JSON is formatted like any result.)
C8_Non2xxFails ==
  \A j \in HttpOutcomes :
     (settled[j].status # 0 /\ settled[j].status \notin 200..299)
       => /\ pc = "done"
          /\ Failed
          /\ CallsFrom("format") = {}

\* C9: the value merged under productData / chainData is always a list: a list body
\* unchanged, any other body (object, scalar, null) as the one element of a list.
C9_PayloadFieldsAreLists ==
  /\ \A j \in HttpOutcomes :
        settled[j].outcome.kind = "resolved"
          => LET body == settled[j].outcome.value
                 field == IF settled[j].call = "primary" THEN finalData.productData
                          ELSE finalData.chainData
             IN /\ field.t = "array"
                /\ body.t = "array" => field = body
                /\ body.t # "array" => field.items = <<body>>
  /\ \A i \in CallsFrom("format") : Payload(i) = finalData

\* C9 happens: the primary fetch answered a list, the chain fetch answered null
C9_Witness ==
  /\ pc = "format"
  /\ CallSites = <<"selection", "primary", "chain", "format">>
  /\ ResultOf("primary") = Arr(<<Obj("row")>>)
  /\ ResultOf("chain") = Null
  /\ finalData = [productData |-> Arr(<<Obj("row")>>), chainData |-> Arr(<<Null>>)]

\* C10: the outbound calls of one call are issued in the order selection, primary
\* fetch, chain fetch (only with a chain), formatting, each only after the one before
\* has completed; a call that returns the formatted text has issued exactly two model
\* calls and one HTTP call, or two with a chain.
C10_SequentialPipeline ==
  LET expected == IF ChainDefined
                  THEN <<"selection", "primary", "chain", "format">>
                  ELSE <<"selection", "primary", "format">>
  IN /\ Len(outbound) <= Len(expected)
     /\ \A i \in DOMAIN outbound : outbound[i].call = expected[i]
     /\ Len(settled) <= Len(outbound)
     /\ Len(outbound) <= Len(settled) + 1
     /\ \A j \in DOMAIN settled :
           /\ settled[j].call = outbound[j].call
           /\ j < Len(outbound) => settled[j].outcome.kind = "resolved"
     /\ ReturnedFormattedText
          => /\ Cardinality(CallsOfKind("model")) = 2
             /\ Cardinality(CallsOfKind("http")) = IF ChainDefined THEN 2 ELSE 1

\* C10 happens: a call on a chained descriptor returned the formatted text
C10_Witness ==
  /\ ReturnedFormattedText
  /\ ChainDefined
  /\ Len(outbound) = Len(settled)
  /\ CallSites = <<"selection", "primary", "chain", "format">>

\* C11: getResponse leaves the caller's endpoint catalog unchanged: no step of a call
\* changes any descriptor or chain sub-descriptor, its headers mapping included.
\* (Refuted: options.headers is the descriptor's own headers object, so the
\* Content-Type assignment of lines 187 / 211 writes into the catalog.)
C11_CatalogUnchanged == [][endpoints' = endpoints]_vars

====
